---- MODULE Spec2Model ----
(***************************************************************************)
(* A model of the sealing / unsealing engine of aegis:                     *)
(*   aegis seal DIR    (src/internal/cli/seal.go, sealCmd.Run)             *)
(*   aegis unseal DIR  (src/unnamed/part_000,     unsealCmd.Run)           *)
(* Strings, paths and file contents are sequences of byte values, as Go    *)
(* strings and []byte are.  The file system is a function from paths to    *)
(* entries.  filepath.Walk is an explicit stack of directory frames; the   *)
(* per-file callback runs in one step up to and including os.WriteFile,    *)
(* and os.Remove with the counter update that follows it is the next step, *)
(* so that the state between write and delete is a state of the model.     *)
(*                                                                         *)
(* Library behaviour that is not in the repository is idealised:           *)
(*  - scrypt.Key is an injective encoding of (password, salt);             *)
(*  - AES-GCM is an ideal AEAD: gcm.Open accepts a ciphertext under a key  *)
(*    and nonce exactly when gcm.Seal produced it under that key and       *)
(*    nonce (the set `oracle` records what gcm.Seal produced);             *)
(*  - crypto/rand never repeats a value (`entropy` is the position in its  *)
(*    output stream).                                                      *)
(* Every call that can return an error can be made to fail by the          *)
(* environment (parameter `fault` of the actions), at most MaxFaults times *)
(* in a behaviour.                                                         *)
(***************************************************************************)
EXTENDS Integers, Sequences, FiniteSets, TLC

VARIABLES
    fs,             \* the file system: path -> [kind, data, target]
    phase,          \* "Init", "Walking", "Finished", "FatalAborted", "Crashed"
    pc,             \* inside Walking: "walk" (next entry) or "remove" (os.Remove pending)
    op,             \* "none", "seal", "unseal": the command that is running
    password,       \* the password read by term.ReadPassword
    stack,          \* filepath.Walk: frames [path, names] of the directories being listed
    cur,            \* the file between os.WriteFile and os.Remove: [src, out, legacy]
    filesSealed,    \* seal.go:48
    filesUnsealed,  \* part_000:39
    filesFailed,    \* part_000:40
    filesSkipped,   \* seal.go:49, part_000:41
    exitCode,       \* 0, or 1 after os.Exit(1)
    oracle,         \* ideal AEAD: the records [pw, salt, nonce, ct] gcm.Seal produced
    entropy,        \* crypto/rand: number of values drawn so far
    event,          \* history: what the last step did
    evPath,         \* history: the path the last step was about
    kdfCalls,       \* history: calls of scrypt.Key in this run
    faults,         \* history: calls that returned an error so far
    runs,           \* history: the commands started so far, <<[op, pw, dir, f0, prev, fs]>>:
                    \* f0, prev and fs are faults, phase and fs when the command started
    fs0,            \* history: the file system before the first command
    origin,         \* history: artifact path -> [path, data, pw, artifact] of the file sealed into it
    visited,        \* history: the paths the walk of this run called the callback for
    created,        \* history: the paths this run wrote that did not exist before
    watcher,        \* watch: the directories added to the fsnotify watcher
    snapshots,      \* watch: tracker.snapshots, path -> [content, hash, lines]
    events,         \* watch: watcher.Events, the queue of <<[name, op]>> not yet handled
    basicLog,       \* watch: what was written to the basic log, <<[tag, path]>>
    detailedLog,    \* watch: what was written to the detailed log, <<[tag, path]>>
    envOps,         \* history: changes other processes made to the watched tree
    reading,        \* watch: the path showNewFileContent is reading, <<>> outside of it
    attempt,        \* watch.go:586  the loop variable of showNewFileContent
    retryDelay,     \* watch.go:584  in milliseconds
    sleeps,         \* history: the time.Sleep calls of this showNewFileContent, in ms
    lastSummary,    \* history: the changeSummary showNewFileContent returned last
    handled         \* history: path -> [op, ok, data] of the last event handled for
                    \* it in the switch: ok and data are what os.ReadFile returned

vars ==
    <<fs, phase, pc, op, password, stack, cur, filesSealed, filesUnsealed,
      filesFailed, filesSkipped, exitCode, oracle, entropy, event, evPath,
      kdfCalls, faults, runs, fs0, origin, visited, created,
      watcher, snapshots, events, basicLog, detailedLog, envOps,
      reading, attempt, retryDelay, sleeps, lastSummary, handled>>

\* the state of `aegis watch`, which seal and unseal leave alone
watchVars ==
    <<watcher, snapshots, events, basicLog, detailedLog, envOps,
      reading, attempt, retryDelay, sleeps, lastSummary, handled>>

\* the state of the retry loop of showNewFileContent
retryVars == <<reading, attempt, retryDelay, sleeps, lastSummary>>

\* the state of seal and unseal, which `aegis watch` leaves alone
engineVars ==
    <<pc, password, stack, cur, filesSealed, filesUnsealed, filesFailed,
      filesSkipped, exitCode, oracle, entropy, kdfCalls, runs, fs0, origin,
      visited, created>>

\* no watch session: no watcher, an empty tracker, nothing logged
NoWatch ==
    /\ watcher = {}
    /\ snapshots = <<>>
    /\ events = <<>>
    /\ basicLog = <<>>
    /\ detailedLog = <<>>
    /\ envOps = 0
    /\ reading = <<>>
    /\ attempt = 0
    /\ retryDelay = 0
    /\ sleeps = <<>>
    /\ lastSummary = [newSize |-> 0, hasChanges |-> FALSE]
    /\ handled = <<>>

----------------------------------------------------------------------------
(* Bounds of the model. *)

\* commands run one after the other in a behaviour
MaxRuns == 2

\* calls the environment may make fail in a behaviour
MaxFaults == 1

----------------------------------------------------------------------------
(* Program constants. *)

\* seal.go:89  salt := make([]byte, 16);  part_000:67,73  data[:16]
SaltSize == 16

\* gcm.NonceSize() of the standard GCM; part_000:67  16+12
NonceSize == 12

\* the GCM tag gcm.Seal appends to the ciphertext
TagSize == 16

\* scrypt.Key(..., 32): the key length
KeySize == 32

\* seal.go:117  the separator between extension and content
NUL == 0

\* '.' and '/', as path/filepath uses them
Dot == 46

Slash == 47

\* ".aegis"
AegisSuffix == <<46, 97, 101, 103, 105, 115>>

\* seal.go:42  excludeList: ".git", "vendor", "node_modules", "target"
excludeSet ==
    { <<46, 103, 105, 116>>,
      <<118, 101, 110, 100, 111, 114>>,
      <<110, 111, 100, 101, 95, 109, 111, 100, 117, 108, 101, 115>>,
      <<116, 97, 114, 103, 101, 116>> }

----------------------------------------------------------------------------
(* strings and path/filepath *)

MaxOf(S) == CHOOSE x \in S : \A y \in S : y <= x

\* the comparison of the whole name with the suffix, which a wrong test would make
HasSuffixExact(s, suffix) == s = suffix

\* strings.HasSuffix
HasSuffix(s, suffix) ==
    /\ Len(s) >= Len(suffix)
    /\ SubSeq(s, Len(s) - Len(suffix) + 1, Len(s)) = suffix

\* strings.TrimSuffix
TrimSuffix(s, suffix) ==
    IF HasSuffix(s, suffix) THEN SubSeq(s, 1, Len(s) - Len(suffix)) ELSE s

\* index of the last '/' of a path, 0 when there is none
LastSlash(path) ==
    LET S == {i \in 1..Len(path) : path[i] = Slash}
    IN  IF S = {} THEN 0 ELSE MaxOf(S)

\* filepath.Base, for the clean non-empty paths filepath.Walk produces
Base(path) == SubSeq(path, LastSlash(path) + 1, Len(path))

\* filepath.Dir, for the clean paths filepath.Walk produces
Dir(path) ==
    IF LastSlash(path) = 0 THEN <<Dot>> ELSE SubSeq(path, 1, LastSlash(path) - 1)

\* filepath.Ext: the suffix beginning at the last dot of the last element
Ext(path) ==
    LET S == {i \in (LastSlash(path) + 1)..Len(path) : path[i] = Dot}
    IN  IF S = {} THEN <<>> ELSE SubSeq(path, MaxOf(S), Len(path))

\* filepath.Join of a clean directory path and one name
Join(dirPath, name) ==
    IF dirPath = <<Dot>> THEN name ELSE dirPath \o <<Slash>> \o name

\* byte-wise order of strings (sort.Strings in readDirNames)
StrLess(a, b) ==
    \E i \in 1..(Len(a) + 1) :
        /\ i <= Len(b)
        /\ SubSeq(a, 1, i - 1) = SubSeq(b, 1, i - 1)
        /\ (i = Len(a) + 1 \/ a[i] < b[i])

\* the elements of a finite set of strings in increasing order
SortNames(S) ==
    IF S = {} THEN <<>>
    ELSE CHOOSE s \in [1..Cardinality(S) -> S] :
            \A i, j \in 1..Cardinality(S) : i < j => StrLess(s[i], s[j])

----------------------------------------------------------------------------
(* the file system *)

FileEntry(data) == [kind |-> "file", data |-> data, target |-> <<>>]

DirEntry == [kind |-> "dir", data |-> <<>>, target |-> <<>>]

LinkEntry(target) == [kind |-> "symlink", data |-> <<>>, target |-> target]

\* os.Lstat succeeds
Exists(f, path) == path \in DOMAIN f

\* the path an open() of `path` ends at: a symbolic link is followed
Resolve(f, path) ==
    IF Exists(f, path) /\ f[path].kind = "symlink" THEN f[path].target ELSE path

\* readDirNames: the sorted names of the entries of a directory
ReadDirNames(f, dirPath) ==
    SortNames({Base(p) : p \in {q \in DOMAIN f : Len(q) > Len(dirPath) /\ q = Join(dirPath, Base(q))}})

\* os.ReadFile
ReadFile(f, path, fault) ==
    LET real == Resolve(f, path)
    IN  IF fault = "read" \/ ~Exists(f, real) \/ f[real].kind # "file"
        THEN [ok |-> FALSE, data |-> <<>>]
        ELSE [ok |-> TRUE, data |-> f[real].data]

\* os.WriteFile(name, data, 0600): creates or truncates the file
WriteFile(f, path, data, fault) ==
    LET real == Resolve(f, path)
    IN  IF fault = "write" \/ (Exists(f, real) /\ f[real].kind # "file")
        THEN [ok |-> FALSE, fs |-> f]
        ELSE [ok |-> TRUE,
              fs |-> [p \in (DOMAIN f) \cup {real} |->
                        IF p = real THEN FileEntry(data) ELSE f[p]]]

\* a delete that reports success and leaves the file where it is
RemoveNoop(f, path, fault) == [ok |-> TRUE, fs |-> f]

\* os.Remove of a file or a symbolic link
Remove(f, path, fault) ==
    IF fault = "remove" \/ ~Exists(f, path) \/ f[path].kind = "dir"
    THEN [ok |-> FALSE, fs |-> f]
    ELSE [ok |-> TRUE, fs |-> [p \in (DOMAIN f) \ {path} |-> f[p]]]

----------------------------------------------------------------------------
(* crypto/rand, scrypt and AES-GCM (idealised), and the artifact layout *)

\* a generator that hands out the same bytes at every call
RandBytesFixed(n, k) == [i \in 1..n |-> 0]

\* the n bytes the k-th read of crypto/rand returns: values never repeat
RandBytes(n, k) == [i \in 1..n |-> k]

\* scrypt.Key(password, salt, 1<<15, 8, 1, 32): an injective encoding of (salt, password)
DeriveKey(pw, salt) ==
    [i \in 1..KeySize |->
        IF i <= SaltSize THEN salt[i]
        ELSE IF i - SaltSize <= Len(pw) THEN pw[i - SaltSize]
        ELSE IF i - SaltSize = Len(pw) + 1 THEN 255
        ELSE 0]

\* the key stream byte of a key and a nonce
Pad(key, nonce) == (key[SaltSize + 1] + nonce[1]) % 256

\* the bytes gcm.Seal(nil, nonce, envelope, nil) returns: ciphertext, then the tag
AEADSeal(key, nonce, envelope) ==
    [i \in 1..Len(envelope) |-> (envelope[i] + Pad(key, nonce)) % 256]
    \o [i \in 1..TagSize |->
          (key[i] + key[i + SaltSize] + nonce[((i - 1) % NonceSize) + 1] + Len(envelope)) % 256]

\* what gcm.Seal adds to the record of the ideal AEAD
Sealed(pw, salt, nonce, ct) == [pw |-> pw, salt |-> salt, nonce |-> nonce, ct |-> ct]

\* an open that does not authenticate the key: any ciphertext gcm.Seal made
\* under this nonce is accepted
AEADOpenAnyKey(orc, key, nonce, ct) ==
    IF \E o \in orc : o.nonce = nonce /\ o.ct = ct
    THEN [ok |-> TRUE,
          envelope |-> [i \in 1..(Len(ct) - TagSize) |->
                          (ct[i] + 256 - Pad(key, nonce)) % 256]]
    ELSE [ok |-> FALSE, envelope |-> <<>>]

\* gcm.Open(nil, nonce, ciphertext, nil): authentic exactly when gcm.Seal made
\* this ciphertext under this key and nonce; then the envelope is decrypted
AEADOpen(orc, key, nonce, ct) ==
    IF \E o \in orc : DeriveKey(o.pw, o.salt) = key /\ o.nonce = nonce /\ o.ct = ct
    THEN [ok |-> TRUE,
          envelope |-> [i \in 1..(Len(ct) - TagSize) |->
                          (ct[i] + 256 - Pad(key, nonce)) % 256]]
    ELSE [ok |-> FALSE, envelope |-> <<>>]

\* seal.go:116-118  extension, 0x00, content
Envelope(originalExt, plaintext) == (originalExt \o <<NUL>>) \o plaintext

\* seal.go:123  final := append(salt, append(nonce, ciphertext...)...)
Encode(salt, nonce, ciphertext) == salt \o (nonce \o ciphertext)

\* a split that takes the nonce one byte too early
DecodeShifted(data) ==
    [salt |-> SubSeq(data, 1, 16),
     nonce |-> SubSeq(data, 16, 16 + NonceSize - 1),
     ciphertext |-> SubSeq(data, 16 + NonceSize, Len(data))]

\* part_000:73, 101-102  salt := data[:16], nonce := data[16:16+nonceSize],
\* ciphertext := data[16+nonceSize:]
Decode(data) ==
    [salt |-> SubSeq(data, 1, 16),
     nonce |-> SubSeq(data, 16 + 1, 16 + NonceSize),
     ciphertext |-> SubSeq(data, 16 + NonceSize + 1, Len(data))]

\* a scan that does not stop at the first 0x00: the index of the last one
NullIndexLast(envelope) ==
    LET S == {i \in 1..Len(envelope) : envelope[i] = NUL}
    IN  IF S = {} THEN 0 ELSE MaxOf(S)

\* part_000:113-119  index of the first 0x00 of the envelope (1-based), 0 for none
NullIndex(envelope) ==
    LET S == {i \in 1..Len(envelope) : envelope[i] = NUL}
    IN  IF S = {} THEN 0 ELSE CHOOSE i \in S : \A j \in S : i <= j

\* a length check that only asks for the salt
TooShortSaltOnly(data) == Len(data) < 16

\* part_000:67  if len(data) < 16+12
TooShort(data) == Len(data) < 16 + 12

\* seal.go:126-128  the output path of Seal
SealOut(path) ==
    Join(Dir(path), TrimSuffix(Base(path), Ext(path)) \o AegisSuffix)

\* part_000:135-136  the output path of Unseal
UnsealOut(path, originalExt) == TrimSuffix(path, AegisSuffix) \o originalExt

\* part_000:123  the output path of Unseal for an envelope without 0x00
LegacyOut(path) == TrimSuffix(path, AegisSuffix)

----------------------------------------------------------------------------
(* the callbacks given to filepath.Walk *)

NoCur == [src |-> <<>>, out |-> <<>>, legacy |-> FALSE]

\* a callback that counts a failure whatever it returns
KeepCounted(ev) ==
    [ev |-> ev, fatal |-> FALSE, fs |-> fs, dFailed |-> 1, dSkipped |-> 0,
     pc |-> "walk", cur |-> NoCur, oracle |-> oracle, entropy |-> entropy,
     dKdf |-> 0, origin |-> origin]

\* the result of a callback that returns nil and changes nothing
Keep(ev) ==
    [ev |-> ev, fatal |-> FALSE, fs |-> fs, dFailed |-> 0, dSkipped |-> 0,
     pc |-> "walk", cur |-> NoCur, oracle |-> oracle, entropy |-> entropy,
     dKdf |-> 0, origin |-> origin]

\* seal.go:70-132  the callback of Seal on an entry that is not a directory,
\* up to and including os.WriteFile
SealFile(path, fault) ==
    LET rd    == ReadFile(fs, path, fault)
        salt  == RandBytes(SaltSize, entropy + 1)
        key   == DeriveKey(password, salt)
        nonce == RandBytes(NonceSize, entropy + 2)
        plaintextWithExt == Envelope(Ext(path), rd.data)
        ciphertext == AEADSeal(key, nonce, plaintextWithExt)
        final == Encode(salt, nonce, ciphertext)
        out   == SealOut(path)
        wr    == WriteFile(fs, out, final, fault)
        orc   == oracle \cup {Sealed(password, salt, nonce, ciphertext)}
    IN  IF fs[path].kind = "symlink"
          THEN [Keep("skipSymlink") EXCEPT !.dSkipped = 1]
        ELSE IF HasSuffix(path, AegisSuffix)
          THEN [Keep("skipSealed") EXCEPT !.dSkipped = 1]
        ELSE IF ~rd.ok
          THEN Keep("readFail")
        ELSE IF fault = "salt"
          THEN [Keep("saltFail") EXCEPT !.fatal = TRUE]
        ELSE IF fault = "kdf"
          THEN [Keep("kdfFail") EXCEPT !.fatal = TRUE, !.entropy = entropy + 1, !.dKdf = 1]
        ELSE IF fault = "cipher"
          THEN [Keep("cipherFail") EXCEPT !.fatal = TRUE, !.entropy = entropy + 1, !.dKdf = 1]
        ELSE IF fault = "gcm"
          THEN [Keep("gcmFail") EXCEPT !.fatal = TRUE, !.entropy = entropy + 1, !.dKdf = 1]
        ELSE IF fault = "nonce"
          THEN [Keep("nonceFail") EXCEPT !.fatal = TRUE, !.entropy = entropy + 1, !.dKdf = 1]
        ELSE IF ~wr.ok
          THEN [Keep("writeFail") EXCEPT !.fatal = TRUE, !.entropy = entropy + 2,
                                         !.dKdf = 1, !.oracle = orc]
        ELSE [Keep("written") EXCEPT
                !.fs = wr.fs, !.entropy = entropy + 2, !.dKdf = 1, !.oracle = orc,
                !.pc = "remove",
                !.cur = [src |-> path, out |-> out, legacy |-> FALSE],
                !.origin = [q \in (DOMAIN origin) \cup {out} |->
                              IF q = out
                              THEN [path |-> path, data |-> rd.data,
                                    pw |-> password, artifact |-> final]
                              ELSE origin[q]]]

\* part_000:53-142  the callback of Unseal on an entry that is not a directory,
\* up to and including os.WriteFile
UnsealFile(path, fault) ==
    LET rd    == ReadFile(fs, path, fault)
        data  == rd.data
        salt  == Decode(data).salt
        key   == DeriveKey(password, salt)
        nonceSize == NonceSize
        nonce == Decode(data).nonce
        ciphertext == Decode(data).ciphertext
        opened == AEADOpen(oracle, key, nonce, ciphertext)
        plaintextWithExt == opened.envelope
        nullIndex == NullIndex(plaintextWithExt)
        originalExt == SubSeq(plaintextWithExt, 1, nullIndex - 1)
        plaintext == SubSeq(plaintextWithExt, nullIndex + 1, Len(plaintextWithExt))
        out   == UnsealOut(path, originalExt)
        wr    == WriteFile(fs, out, plaintext, fault)
        lout  == LegacyOut(path)
        lwr   == WriteFile(fs, lout, plaintextWithExt, fault)
    IN  IF ~HasSuffix(path, AegisSuffix)
          THEN [Keep("skipPlain") EXCEPT !.dSkipped = 1]
        ELSE IF ~rd.ok
          THEN [Keep("readFail") EXCEPT !.dFailed = 1]
        ELSE IF TooShort(data)
          THEN [Keep("tooShort") EXCEPT !.dFailed = 1]
        ELSE IF fault = "kdf"
          THEN [Keep("kdfFail") EXCEPT !.dFailed = 1, !.dKdf = 1]
        ELSE IF fault = "cipher"
          THEN [Keep("cipherFail") EXCEPT !.dFailed = 1, !.dKdf = 1, !.fatal = TRUE]
        ELSE IF fault = "gcm"
          THEN [Keep("gcmFail") EXCEPT !.dFailed = 1, !.dKdf = 1, !.fatal = TRUE]
        ELSE IF Len(data) < 16 + nonceSize
          THEN [Keep("malformed") EXCEPT !.dFailed = 1, !.dKdf = 1]
        ELSE IF ~opened.ok
          THEN [Keep("authFail") EXCEPT !.dFailed = 1, !.dKdf = 1]
        ELSE IF nullIndex = 0
          THEN [Keep(IF lwr.ok THEN "legacyWritten" ELSE "legacyWriteFail") EXCEPT
                  !.fs = lwr.fs, !.dKdf = 1, !.pc = "remove",
                  !.cur = [src |-> path, out |-> lout, legacy |-> TRUE]]
        ELSE IF ~wr.ok
          THEN [Keep("writeFail") EXCEPT !.dFailed = 1, !.dKdf = 1]
        ELSE [Keep("written") EXCEPT
                !.fs = wr.fs, !.dKdf = 1, !.pc = "remove",
                !.cur = [src |-> path, out |-> out, legacy |-> FALSE]]

\* a callback that looks at the name before it looks at the kind of the entry
ClassifyByName(o, f, path) ==
    IF o = "seal" /\ Base(path) \in excludeSet THEN "excluded"
    ELSE IF f[path].kind = "dir" THEN "directory"
    ELSE "file"

\* seal.go:59-68, part_000:50-52  the branch the callback takes for an entry:
\* info.IsDir() is tested first, the exclusion set only for a directory of Seal
Classify(o, f, path) ==
    IF f[path].kind = "dir"
    THEN (IF o = "seal" /\ Base(path) \in excludeSet THEN "excluded" ELSE "directory")
    ELSE "file"

\* the events of a step in which a call returned an error
FailEvents ==
    {"readFail", "saltFail", "kdfFail", "cipherFail", "gcmFail", "nonceFail",
     "writeFail", "legacyWriteFail", "removeFail", "legacyRemoveFail",
     "lstatFail", "readDirFail", "rootMissing"}

----------------------------------------------------------------------------
(* filepath.Walk *)

RECURSIVE PopDone(_)
\* walk returns from every directory whose names are all visited
PopDone(st) ==
    IF st = <<>> THEN st
    ELSE IF st[Len(st)].names = <<>> THEN PopDone(SubSeq(st, 1, Len(st) - 1))
    ELSE st

\* the entry filepath.Walk visits next
NextPath == Join(stack[Len(stack)].path, Head(stack[Len(stack)].names))

\* the walk after the callback returned nil for a file, or SkipDir for a directory
Advance(st) == PopDone([st EXCEPT ![Len(st)].names = Tail(@)])

\* the walk after the callback returned nil for directory dirPath, whose names were read
Descend(st, dirPath, names) ==
    PopDone(Append([st EXCEPT ![Len(st)].names = Tail(@)],
                   [path |-> dirPath, names |-> names]))

----------------------------------------------------------------------------
(* the inputs of the model: passwords, directory arguments, directory trees *)

\* "p" and "q"
PwA == <<112>>

PwB == <<113>>

Passwords == {PwA, PwB}

\* "r", the directory every tree has, and "x", a directory no tree has
Root == <<114>>

MissingRoot == <<120>>

\* the path of a name below Root: names are written as byte strings,
\* a=97 b=98 c=99 d=100 k=107 l=108 m=109 n=110 q=113 t=116 z=122 .=46
InRoot(name) == Join(Root, name)

\* r/a.t = "hi", r/b = "" (no extension, empty content)
PlainTree ==
    (Root :> DirEntry)
    @@ (InRoot(<<97, 46, 116>>) :> FileEntry(<<104, 105>>))
    @@ (InRoot(<<98>>) :> FileEntry(<<>>))

\* r/a.m and r/a.t: two files of one directory that differ only in their extension
CollisionTree ==
    (Root :> DirEntry)
    @@ (InRoot(<<97, 46, 109>>) :> FileEntry(<<2>>))
    @@ (InRoot(<<97, 46, 116>>) :> FileEntry(<<1>>))

\* r/d/c.t (content with a 0x00), the symbolic link r/k to it, r/vendor/l.b
DeepTree ==
    (Root :> DirEntry)
    @@ (InRoot(<<100>>) :> DirEntry)
    @@ (Join(InRoot(<<100>>), <<99, 46, 116>>) :> FileEntry(<<0, 5>>))
    @@ (InRoot(<<107>>) :> LinkEntry(Join(InRoot(<<100>>), <<99, 46, 116>>)))
    @@ (InRoot(<<118, 101, 110, 100, 111, 114>>) :> DirEntry)
    @@ (Join(InRoot(<<118, 101, 110, 100, 111, 114>>), <<108, 46, 98>>) :> FileEntry(<<9>>))

\* the excluded directory r/vendor
VendorDir == InRoot(<<118, 101, 110, 100, 111, 114>>)

\* the directories a command is given: r, one that does not exist, and r/vendor,
\* whose own name is in the exclusion set
RootArgs == {Root, MissingRoot, VendorDir}

\* r/notes.txt = "hello" and r/vendor/lib.bin: one regular file, one excluded directory
NotesTree ==
    (Root :> DirEntry)
    @@ (InRoot(<<110, 111, 116, 101, 115, 46, 116, 120, 116>>) :>
            FileEntry(<<104, 101, 108, 108, 111>>))
    @@ (VendorDir :> DirEntry)
    @@ (Join(VendorDir, <<108, 105, 98, 46, 98, 105, 110>>) :> FileEntry(<<9>>))

\* the artifact an earlier Seal with password PwA made of r/a.t = <<0, 7>>
OldSalt == RandBytes(SaltSize, 1)

OldNonce == RandBytes(NonceSize, 2)

OldPlain == <<0, 7>>

OldCipher ==
    AEADSeal(DeriveKey(PwA, OldSalt), OldNonce, Envelope(<<46, 116>>, OldPlain))

OldArtifact == Encode(OldSalt, OldNonce, OldCipher)

\* the artifact an earlier version of Seal made: its envelope <<7, 8>> has no 0x00
LegacyCipher == AEADSeal(DeriveKey(PwA, OldSalt), OldNonce, <<7, 8>>)

LegacyArtifact == Encode(OldSalt, OldNonce, LegacyCipher)

\* an artifact with the byte at position i altered
Tamper(data, i) == [data EXCEPT ![i] = (@ + 1) % 256]

\* the lengths an artifact is cut to
TruncLens == {0, 27, 28, 48}

\* the positions a byte is altered at: the first and the last byte of the
\* salt, of the nonce, of the ciphertext and of the tag
TamperPositions ==
    {1, SaltSize, SaltSize + 1, SaltSize + NonceSize, SaltSize + NonceSize + 1,
     Len(OldArtifact) - TagSize, Len(OldArtifact) - TagSize + 1, Len(OldArtifact)}

\* the damaged contents r/a.aegis starts with: altered in one byte, or cut
DamagedArtifacts ==
    {Tamper(OldArtifact, i) : i \in TamperPositions}
    \cup {SubSeq(OldArtifact, 1, k) : k \in TruncLens}

\* r/a.aegis with the given content
ArtifactTree(data) ==
    (Root :> DirEntry)
    @@ (InRoot(<<97>> \o AegisSuffix) :> FileEntry(data))

\* r/a.aegis with the given content, next to the plain file r/n.t
SealedTree(data) ==
    ArtifactTree(data) @@ (InRoot(<<110, 46, 116>>) :> FileEntry(<<3>>))

\* r/a.aegis, sealed from an a.t, next to a plain file r/a.t of another content
ShadowTree(data) ==
    ArtifactTree(data) @@ (InRoot(<<97, 46, 116>>) :> FileEntry(<<3>>))

\* the artifact r/vendor/l.aegis in an excluded directory, the symbolic link
\* r/a.aegis to it, and the plain file r/a.t
LinkTree(data) ==
    (Root :> DirEntry)
    @@ (InRoot(<<97>> \o AegisSuffix) :> LinkEntry(Join(VendorDir, <<108>> \o AegisSuffix)))
    @@ (InRoot(<<97, 46, 116>>) :> FileEntry(<<3>>))
    @@ (VendorDir :> DirEntry)
    @@ (Join(VendorDir, <<108>> \o AegisSuffix) :> FileEntry(data))

\* the symbolic link r/a.aegis to r/z/q.aegis, which does not exist, the plain
\* file r/a.t and the empty directory r/z
DanglingTree ==
    (Root :> DirEntry)
    @@ (InRoot(<<97>> \o AegisSuffix) :>
            LinkEntry(Join(InRoot(<<122>>), <<113>> \o AegisSuffix)))
    @@ (InRoot(<<97, 46, 116>>) :> FileEntry(<<3>>))
    @@ (InRoot(<<122>>) :> DirEntry)

\* the plain file r/a.t and the symbolic link r/a.aegis to it
SelfLinkTree ==
    (Root :> DirEntry)
    @@ (InRoot(<<97>> \o AegisSuffix) :> LinkEntry(InRoot(<<97, 46, 116>>)))
    @@ (InRoot(<<97, 46, 116>>) :> FileEntry(<<3>>))

\* the directory r/e.aegis with the file g.t in it, and the regular file
\* r/target, whose name is in the exclusion set  (e=101 g=103)
NamesTree ==
    (Root :> DirEntry)
    @@ (InRoot(<<101>> \o AegisSuffix) :> DirEntry)
    @@ (Join(InRoot(<<101>> \o AegisSuffix), <<103, 46, 116>>) :> FileEntry(<<4>>))
    @@ (InRoot(<<116, 97, 114, 103, 101, 116>>) :> FileEntry(<<6>>))

\* what is known of the file that was sealed into r/vendor/l.aegis
LinkOrigin ==
    (Join(VendorDir, <<108>> \o AegisSuffix) :>
        [path |-> Join(VendorDir, <<108, 46, 116>>), data |-> OldPlain,
         pw |-> PwA, artifact |-> OldArtifact])

\* what is known of the file that was sealed into r/a.aegis
OldOrigin ==
    (InRoot(<<97>> \o AegisSuffix) :>
        [path |-> InRoot(<<97, 46, 116>>), data |-> OldPlain,
         pw |-> PwA, artifact |-> OldArtifact])

NoOrigin == [q \in {} |-> NoCur]

\* what gcm.Seal produced before the first command
OldOracle ==
    {Sealed(PwA, OldSalt, OldNonce, OldCipher),
     Sealed(PwA, OldSalt, OldNonce, LegacyCipher)}

\* the states a command can be started in
Scenarios ==
    {[fs |-> t, oracle |-> {}, origin |-> NoOrigin] :
        t \in {PlainTree, CollisionTree, DeepTree, NotesTree, DanglingTree,
               SelfLinkTree, NamesTree}}
    \cup
    {[fs |-> SealedTree(OldArtifact), oracle |-> OldOracle, origin |-> OldOrigin],
     [fs |-> ShadowTree(OldArtifact), oracle |-> OldOracle, origin |-> OldOrigin],
     [fs |-> LinkTree(OldArtifact), oracle |-> OldOracle, origin |-> LinkOrigin],
     [fs |-> ArtifactTree(LegacyArtifact), oracle |-> OldOracle, origin |-> NoOrigin]}
    \cup
    {[fs |-> ArtifactTree(a), oracle |-> OldOracle, origin |-> OldOrigin] :
        a \in DamagedArtifacts}

----------------------------------------------------------------------------
(* the state machine *)

Init ==
    /\ \E sc \in Scenarios :
        /\ fs = sc.fs
        /\ fs0 = sc.fs
        /\ oracle = sc.oracle
        /\ origin = sc.origin
    /\ phase = "Init"
    /\ pc = "walk"
    /\ op = "none"
    /\ password = <<>>
    /\ stack = <<>>
    /\ cur = NoCur
    /\ filesSealed = 0
    /\ filesUnsealed = 0
    /\ filesFailed = 0
    /\ filesSkipped = 0
    /\ exitCode = 0
    /\ entropy = 2
    /\ event = "init"
    /\ evPath = <<>>
    /\ kdfCalls = 0
    /\ faults = 0
    /\ runs = <<>>
    /\ visited = {}
    /\ created = {}
    /\ NoWatch

\* the environment may make a call fail while its budget lasts
FaultOK(fault) == fault = "none" \/ faults < MaxFaults

\* a walk that goes on after an error, which a callback returning nil would make
PhaseAfterNoFatal(fatal, st, nextPc) ==
    IF st = <<>> /\ nextPc = "walk" THEN "Finished" ELSE "Walking"

\* the phase after a step of the walk
PhaseAfter(fatal, st, nextPc) ==
    IF fatal THEN "FatalAborted"
    ELSE IF st = <<>> /\ nextPc = "walk" THEN "Finished"
    ELSE "Walking"

\* seal.go:25-56, part_000:22-52  a command starts: the password is read, the
\* counters are zero, filepath.Walk stats the root, lists it and calls the
\* callback for it
Start(o, pw, dir, fault) ==
    /\ UNCHANGED watchVars
    /\ phase \in {"Init", "Finished", "FatalAborted", "Crashed"}
    /\ FaultOK(fault)
    /\ op' = o
    /\ password' = pw
    /\ runs' = Append(runs, [op |-> o, pw |-> pw, dir |-> dir,
                              f0 |-> faults, prev |-> phase, fs |-> fs])
    /\ filesSealed' = 0
    /\ filesUnsealed' = 0
    /\ filesFailed' = 0
    /\ filesSkipped' = 0
    /\ kdfCalls' = 0
    /\ pc' = "walk"
    /\ cur' = NoCur
    /\ evPath' = dir
    /\ event' =
         IF ~Exists(fs, dir) THEN "rootMissing"
         ELSE IF fault = "readdir" THEN "readDirFail"
         ELSE IF Classify(o, fs, dir) = "excluded" THEN "skipDir"
         ELSE "start"
    /\ stack' =
         IF event' = "start"
         THEN PopDone(<<[path |-> dir, names |-> ReadDirNames(fs, dir)]>>)
         ELSE <<>>
    /\ phase' = PhaseAfter(event' \in {"rootMissing", "readDirFail"}, stack', "walk")
    /\ exitCode' = IF phase' = "FatalAborted" THEN 1 ELSE 0
    /\ faults' = IF event' \in FailEvents THEN faults + 1 ELSE faults
    /\ visited' = {dir}
    /\ created' = {}
    /\ UNCHANGED <<fs, oracle, entropy, fs0, origin>>

\* filepath.Walk: os.Lstat of the next name fails; both callbacks return the error
LstatError(fault) ==
    /\ UNCHANGED watchVars
    /\ phase = "Walking"
    /\ pc = "walk"
    /\ FaultOK(fault)
    /\ fault = "lstat" \/ ~Exists(fs, NextPath)
    /\ event' = "lstatFail"
    /\ evPath' = NextPath
    /\ stack' = <<>>
    /\ phase' = "FatalAborted"
    /\ exitCode' = 1
    /\ faults' = faults + 1
    /\ visited' = visited \cup {NextPath}
    /\ UNCHANGED <<fs, pc, op, password, cur, filesSealed, filesUnsealed, filesFailed,
                   filesSkipped, oracle, entropy, kdfCalls, runs, fs0, origin, created>>

\* seal.go:59-68, part_000:50-52  the next entry is a directory
VisitDir(fault) ==
    /\ UNCHANGED watchVars
    /\ phase = "Walking"
    /\ pc = "walk"
    /\ Exists(fs, NextPath)
    /\ Classify(op, fs, NextPath) # "file"
    /\ FaultOK(fault)
    /\ evPath' = NextPath
    /\ event' =
         IF fault = "readdir" THEN "readDirFail"
         ELSE IF Classify(op, fs, NextPath) = "excluded" THEN "skipDir"
         ELSE "enterDir"
    /\ stack' =
         CASE event' = "readDirFail" -> <<>>
           [] event' = "skipDir" -> Advance(stack)
           [] OTHER -> Descend(stack, NextPath, ReadDirNames(fs, NextPath))
    /\ phase' = PhaseAfter(event' = "readDirFail", stack', "walk")
    /\ exitCode' = IF phase' = "FatalAborted" THEN 1 ELSE 0
    /\ faults' = IF event' \in FailEvents THEN faults + 1 ELSE faults
    /\ visited' = visited \cup {NextPath}
    /\ UNCHANGED <<fs, pc, op, password, cur, filesSealed, filesUnsealed, filesFailed,
                   filesSkipped, oracle, entropy, kdfCalls, runs, fs0, origin, created>>

\* seal.go:70-132, part_000:53-142  the next entry is not a directory: the
\* callback runs up to and including os.WriteFile
VisitFile(fault) ==
    /\ UNCHANGED watchVars
    /\ phase = "Walking"
    /\ pc = "walk"
    /\ Exists(fs, NextPath)
    /\ Classify(op, fs, NextPath) = "file"
    /\ FaultOK(fault)
    /\ LET r == IF op = "seal" THEN SealFile(NextPath, fault)
                ELSE UnsealFile(NextPath, fault)
       IN  /\ fault = "none" \/ r.ev \in FailEvents
           /\ event' = r.ev
           /\ evPath' = NextPath
           /\ fs' = r.fs
           /\ oracle' = r.oracle
           /\ entropy' = r.entropy
           /\ origin' = r.origin
           /\ kdfCalls' = kdfCalls + r.dKdf
           /\ filesFailed' = filesFailed + r.dFailed
           /\ filesSkipped' = filesSkipped + r.dSkipped
           /\ pc' = r.pc
           /\ cur' = r.cur
           /\ stack' = IF r.fatal THEN <<>>
                       ELSE IF r.pc = "remove" THEN stack
                       ELSE Advance(stack)
           /\ phase' = PhaseAfter(r.fatal, stack', r.pc)
           /\ exitCode' = IF r.fatal THEN 1 ELSE 0
           /\ faults' = IF r.ev \in FailEvents THEN faults + 1 ELSE faults
           /\ created' = created \cup (DOMAIN r.fs \ DOMAIN fs)
    /\ visited' = visited \cup {NextPath}
    /\ UNCHANGED <<op, password, filesSealed, filesUnsealed, runs, fs0>>

\* seal.go:134-140, part_000:125-128 and 144-150  os.Remove of the source, whose
\* error is at most a warning, then the counter and the return to the walk
RemoveSource(fault) ==
    /\ UNCHANGED watchVars
    /\ phase = "Walking"
    /\ pc = "remove"
    /\ FaultOK(fault)
    /\ LET rm == Remove(fs, cur.src, fault)
       IN  /\ fault = "none" \/ ~rm.ok
           /\ fs' = rm.fs
           /\ event' =
                IF cur.legacy
                THEN (IF rm.ok THEN "legacyRemoved" ELSE "legacyRemoveFail")
                ELSE (IF rm.ok THEN "removed" ELSE "removeFail")
           /\ faults' = IF rm.ok THEN faults ELSE faults + 1
    /\ evPath' = cur.src
    /\ filesFailed' = IF cur.legacy THEN filesFailed + 1 ELSE filesFailed
    /\ filesSealed' = IF ~cur.legacy /\ op = "seal" THEN filesSealed + 1 ELSE filesSealed
    /\ filesUnsealed' =
         IF ~cur.legacy /\ op = "unseal" THEN filesUnsealed + 1 ELSE filesUnsealed
    /\ pc' = "walk"
    /\ cur' = NoCur
    /\ stack' = Advance(stack)
    /\ phase' = PhaseAfter(FALSE, stack', "walk")
    /\ UNCHANGED <<op, password, filesSkipped, exitCode, oracle, entropy, kdfCalls,
                   runs, fs0, origin, visited, created>>

Next ==
    \/ \E o \in {"seal", "unseal"}, pw \in Passwords, dir \in RootArgs,
          fault \in {"none", "readdir"} :
          Len(runs) < MaxRuns /\ Start(o, pw, dir, fault)
    \/ \E fault \in {"none", "lstat"} : LstatError(fault)
    \/ \E fault \in {"none", "readdir"} : VisitDir(fault)
    \/ \E fault \in {"none", "read", "salt", "kdf", "cipher", "gcm", "nonce", "write"} :
          VisitFile(fault)
    \/ \E fault \in {"none", "remove"} : RemoveSource(fault)

Spec == Init /\ [][Next]_vars

----------------------------------------------------------------------------
(* a Seal that is stopped, run again, and followed by Unseal *)

\* the process is killed between two file operations of the walk: what is on
\* disk stays, the walk and the counters of the process are lost
Crash ==
    /\ UNCHANGED watchVars
    /\ phase = "Walking"
    /\ phase' = "Crashed"
    /\ stack' = <<>>
    /\ pc' = "walk"
    /\ cur' = NoCur
    /\ event' = "crash"
    /\ evPath' = <<>>
    /\ exitCode' = 1
    /\ UNCHANGED <<fs, op, password, filesSealed, filesUnsealed, filesFailed,
                   filesSkipped, oracle, entropy, kdfCalls, faults, runs, fs0,
                   origin, visited, created>>

\* the commands that are run one after the other
ResumeScript == <<"seal", "seal", "unseal">>

\* the file name without its extension
Stem(path) == TrimSuffix(Base(path), Ext(path))

\* no two entries of one directory share their name without extension
DistinctStems(f) ==
    \A p, q \in DOMAIN f :
        (p # q /\ f[p].kind # "dir" /\ f[q].kind # "dir" /\ Dir(p) = Dir(q))
            => Stem(p) # Stem(q)

InitResume == Init /\ DistinctStems(fs)

\* the next command of the script is started on the root, with the password
\* the first one was given
ResumeStart(pw, fault) ==
    /\ Len(runs) < Len(ResumeScript)
    /\ runs # <<>> => pw = runs[1].pw
    /\ Start(ResumeScript[Len(runs) + 1], pw, Root, fault)

NextResume ==
    \/ \E pw \in Passwords, fault \in {"none", "readdir"} : ResumeStart(pw, fault)
    \/ \E fault \in {"none", "lstat"} : LstatError(fault)
    \/ \E fault \in {"none", "readdir"} : VisitDir(fault)
    \/ \E fault \in {"none", "read", "salt", "kdf", "cipher", "gcm", "nonce", "write"} :
          VisitFile(fault)
    \/ \E fault \in {"none", "remove"} : RemoveSource(fault)
    \/ Crash

SpecResume == InitResume /\ [][NextResume]_vars

----------------------------------------------------------------------------
(* the layout of an artifact: what Seal puts together, Unseal takes apart *)

\* the longest ciphertext that is put together
MaxCiphertextLen == 3

\* the byte values the parts are made of
LayoutBytes == {0, 255}

\* the byte strings of a length over the byte values
BytesOfLen(n) == [1..n -> LayoutBytes]

\* the salts, nonces and ciphertexts that are put together
LayoutInputs ==
    {[salt |-> RandBytes(SaltSize, a), nonce |-> RandBytes(NonceSize, b), ciphertext |-> c] :
        a \in LayoutBytes, b \in LayoutBytes,
        c \in UNION {BytesOfLen(n) : n \in 0..MaxCiphertextLen}}

\* the path the artifact is written to
LayoutPath == InRoot(<<97>> \o AegisSuffix)

\* origin holds the parts that go in, cur the parts that come out
InitLayout ==
    /\ origin \in LayoutInputs
    /\ cur = NoCur
    /\ fs = (Root :> DirEntry)
    /\ fs0 = fs
    /\ phase = "Init"
    /\ pc = "encode"
    /\ op = "none"
    /\ password = <<>>
    /\ stack = <<>>
    /\ filesSealed = 0
    /\ filesUnsealed = 0
    /\ filesFailed = 0
    /\ filesSkipped = 0
    /\ exitCode = 0
    /\ oracle = {}
    /\ entropy = 0
    /\ event = "init"
    /\ evPath = <<>>
    /\ kdfCalls = 0
    /\ faults = 0
    /\ runs = <<>>
    /\ visited = {}
    /\ created = {}
    /\ NoWatch

\* seal.go:123-130  final := append(salt, append(nonce, ciphertext...)...),
\* then os.WriteFile
LayoutEncode ==
    /\ UNCHANGED watchVars
    /\ pc = "encode"
    /\ fs' = WriteFile(fs, LayoutPath,
                       Encode(origin.salt, origin.nonce, origin.ciphertext), "none").fs
    /\ pc' = "decode"
    /\ event' = "encoded"
    /\ UNCHANGED <<phase, op, password, stack, cur, filesSealed, filesUnsealed,
                   filesFailed, filesSkipped, exitCode, oracle, entropy, evPath,
                   kdfCalls, faults, runs, fs0, origin, visited, created>>

\* part_000:59-102  os.ReadFile, then the three slices
LayoutDecode ==
    /\ UNCHANGED watchVars
    /\ pc = "decode"
    /\ cur' = Decode(ReadFile(fs, LayoutPath, "none").data)
    /\ pc' = "done"
    /\ event' = "decoded"
    /\ UNCHANGED <<fs, phase, op, password, stack, filesSealed, filesUnsealed,
                   filesFailed, filesSkipped, exitCode, oracle, entropy, evPath,
                   kdfCalls, faults, runs, fs0, origin, visited, created>>

NextLayout == LayoutEncode \/ LayoutDecode

SpecLayout == InitLayout /\ [][NextLayout]_vars

----------------------------------------------------------------------------
(* aegis watch DIR  (src/internal/cli/watch.go, watchCmd.Run)               *)
(*                                                                         *)
(* Other processes change the watched tree while watch runs (the Env       *)
(* actions); fsnotify reports a change of an entry of a directory that is  *)
(* on the watcher as an event in watcher.Events, which the loop of         *)
(* watchCmd.Run takes out one at a time.  An event is handled in one step, *)
(* against the file system as it is when the event is handled, which need  *)
(* not be the file system that produced the event.  The log files of the   *)
(* session lie in ./logs, taken to be outside the watched tree; a log is   *)
(* the sequence of the entries written to it.  sha256.Sum256 is idealised  *)
(* as collision-free.                                                      *)

\* changes other processes make to the watched tree in a behaviour
MaxEnvOps == 2

\* '\n'
Newline == 10

\* watch.go:267  excludeList: ".git", "vendor", "node_modules", "target",
\* ".idea", ".vscode"
watchExcludeList ==
    { <<46, 103, 105, 116>>,
      <<118, 101, 110, 100, 111, 114>>,
      <<110, 111, 100, 101, 95, 109, 111, 100, 117, 108, 101, 115>>,
      <<116, 97, 114, 103, 101, 116>>,
      <<46, 105, 100, 101, 97>>,
      <<46, 118, 115, 99, 111, 100, 101>> }

\* watch.go:148-150  "watch_log_", "watch_detailed_", "watch_basic_"
watchLogPrefixes ==
    { <<119, 97, 116, 99, 104, 95, 108, 111, 103, 95>>,
      <<119, 97, 116, 99, 104, 95, 100, 101, 116, 97, 105, 108, 101, 100, 95>>,
      <<119, 97, 116, 99, 104, 95, 98, 97, 115, 105, 99, 95>> }

\* strings.HasPrefix
HasPrefix(s, prefix) ==
    /\ Len(s) >= Len(prefix)
    /\ SubSeq(s, 1, Len(prefix)) = prefix

\* watch.go:266-274
shouldExcludeDir(name) == name \in watchExcludeList

\* the entries of a directory, as paths
Children(f, dirPath) ==
    {q \in DOMAIN f : Len(q) > Len(dirPath) /\ q = Join(dirPath, Base(q))}

\* os.Stat(path) succeeds and IsDir(): a symbolic link is followed
StatIsDir(f, path) ==
    LET real == Resolve(f, path)
    IN  Exists(f, real) /\ f[real].kind = "dir"

\* strings.Split(string(content), "\n")
RECURSIVE SplitLines(_)
SplitLines(s) ==
    LET S == {i \in 1..Len(s) : s[i] = Newline}
    IN  IF S = {} THEN <<s>>
        ELSE LET i == CHOOSE x \in S : \A y \in S : x <= y
             IN  <<SubSeq(s, 1, i - 1)>> \o SplitLines(SubSeq(s, i + 1, Len(s)))

\* sha256.Sum256, collision-free
Sum256(content) == [sha256 |-> content]

\* watch.go:294-302  the snapshot addSnapshot stores
Snapshot(content) ==
    [content |-> content, hash |-> Sum256(content), lines |-> SplitLines(content)]

\* watch.go:277-303  fileTracker.addSnapshot: the errors of os.ReadFile and
\* os.Stat leave the tracker as it is
addSnapshot(snaps, f, path) ==
    LET r == ReadFile(f, path, "none")
    IN  IF ~r.ok THEN snaps
        ELSE [p \in (DOMAIN snaps) \cup {path} |->
                IF p = path THEN Snapshot(r.data) ELSE snaps[p]]

\* a removal that leaves the snapshot in the tracker
removeSnapshotKeeps(snaps, path) == snaps

\* watch.go:305-309  fileTracker.removeSnapshot
removeSnapshot(snaps, path) == [p \in (DOMAIN snaps) \ {path} |-> snaps[p]]

\* watch.go:248-262  the directories the walk of addDirRecursive(watcher, dir)
\* adds when it comes to `path`: os.Lstat decides what is a directory, the
\* exclusion is not applied to the walk's root
RECURSIVE WatchedBelow(_, _, _)
WatchedBelow(f, dir, path) ==
    IF ~Exists(f, path) \/ f[path].kind # "dir" THEN {}
    ELSE IF shouldExcludeDir(Base(path)) /\ path # dir THEN {}
    ELSE {path} \cup UNION {WatchedBelow(f, dir, q) : q \in Children(f, path)}

\* watch.go:247-263  addDirRecursive
addDirRecursive(w, f, dir) == w \cup WatchedBelow(f, dir, dir)

\* watch.go:321-341  the files the walk of createInitialSnapshots takes a
\* snapshot of when it comes to `path`
RECURSIVE SnapshotBelow(_, _, _)
SnapshotBelow(f, dir, path) ==
    IF ~Exists(f, path) THEN {}
    ELSE IF f[path].kind = "dir"
    THEN IF shouldExcludeDir(Base(path)) /\ path # dir THEN {}
         ELSE UNION {SnapshotBelow(f, dir, q) : q \in Children(f, path)}
    ELSE IF f[path].kind = "symlink" \/ HasSuffix(path, AegisSuffix) THEN {}
    ELSE {path}

\* watch.go:320-342  createInitialSnapshots on an empty tracker
createInitialSnapshots(f, dir) ==
    [p \in SnapshotBelow(f, dir, dir) |-> Snapshot(f[p].data)]

\* watch.go:386-392  changedLines: the lines both versions have, and differ in
changedLines(oldLines, newLines) ==
    {i \in 1..Len(oldLines) : i <= Len(newLines) /\ oldLines[i] # newLines[i]}

\* watch.go:386-390  removedLines: the lines only the old version has
removedLines(oldLines, newLines) ==
    {i \in 1..Len(oldLines) : i > Len(newLines)}

\* watch.go:394-398  addedLines: the lines only the new version has
addedLines(oldLines, newLines) ==
    {i \in (Len(oldLines) + 1)..Len(newLines) : TRUE}

\* a summary that counts the modified lines only
lineIndicesChangedOnly(oldLines, newLines) == changedLines(oldLines, newLines)

\* watch.go:424-437  lineIndices: the line numbers of all three lists
lineIndices(oldLines, newLines) ==
    {line \in changedLines(oldLines, newLines)
              \cup addedLines(oldLines, newLines)
              \cup removedLines(oldLines, newLines) : line > 0}

LogEntry(tag, path) == [tag |-> tag, path |-> path]

\* watch.go:344-503  detectAndShowChanges: the tracker afterwards, what is
\* appended to the two logs, and the summary returned
detectAndShowChanges(snaps, f, path) ==
    LET r == ReadFile(f, path, "none")
        newLines == SplitLines(r.data)
    IN  IF ~r.ok
        THEN [snapshots |-> snaps,
              basic |-> <<LogEntry("could not read", path)>>,
              detailed |-> <<LogEntry("could not read", path)>>,
              newSize |-> 0, hasChanges |-> FALSE]
        ELSE IF path \notin DOMAIN snaps
        THEN [snapshots |-> addSnapshot(snaps, f, path),
              basic |-> <<LogEntry("new file", path)>>,
              detailed |-> <<LogEntry("new file", path)>>,
              newSize |-> Len(r.data), hasChanges |-> Len(newLines) > 0]
        ELSE IF snaps[path].hash = Sum256(r.data)
        THEN [snapshots |-> snaps,
              basic |-> <<>>,
              detailed |-> <<LogEntry("identical", path)>>,
              newSize |-> Len(r.data), hasChanges |-> FALSE]
        ELSE [snapshots |-> addSnapshot(snaps, f, path),
              basic |-> <<>>,
              detailed |-> <<LogEntry("summary", path)>>,
              newSize |-> Len(r.data),
              hasChanges |-> lineIndices(snaps[path].lines, newLines) # {}]

\* watch.go:583  maxRetries := 5
maxRetries == 5

\* watch.go:584  retryDelay := time.Millisecond * 100
InitialDelay == 100

\* a delay that stays what it is
NextDelaySame(delay) == delay

\* watch.go:595  retryDelay *= 2
NextDelay(delay) == delay * 2

\* watch.go:599-648  showNewFileContent after its loop, r being what the last
\* os.ReadFile returned: what is appended to the two logs, and the summary
\* returned
showNewFileContent(path, r) ==
    IF ~r.ok
    THEN [basic |-> <<LogEntry("could not read", path)>>,
          detailed |-> <<LogEntry("could not read", path)>>,
          newSize |-> 0, hasChanges |-> FALSE]
    ELSE [basic |-> <<>>,
          detailed |-> <<LogEntry("size", path)>>,
          newSize |-> Len(r.data),
          hasChanges |-> Len(SplitLines(r.data)) > 0]

\* a filter that knows the sealed files only
FilteredAegisOnly(name) == HasSuffix(name, AegisSuffix)

\* watch.go:147-150  the events the loop drops before it looks at them
Filtered(name) ==
    \/ HasSuffix(name, AegisSuffix)
    \/ \E prefix \in watchLogPrefixes : HasPrefix(Base(name), prefix)

----------------------------------------------------------------------------
(* the inputs of watch *)

WatchArgs == {Root, MissingRoot}

\* "h" and "h\ni": one line, and the same line followed by a second
WatchData == { <<104>>, <<104, 10, 105>> }

\* r/a.t
WatchedFile == InRoot(<<97, 46, 116>>)

\* r/watch_log_: a file of the tree whose name begins like a log of watch
LogNamedFile == InRoot(<<119, 97, 116, 99, 104, 95, 108, 111, 103, 95>>)

\* r/d and r/d/.git
SubDir == InRoot(<<100>>)

GitDir == Join(SubDir, <<46, 103, 105, 116>>)

\* r/a.t, r/d/c.t, r/vendor/l.b, r/watch_log_, r/o.aegis, and the symbolic
\* link r/k to r/a.t
WatchTree ==
    (Root :> DirEntry)
    @@ (WatchedFile :> FileEntry(<<104>>))
    @@ (SubDir :> DirEntry)
    @@ (Join(SubDir, <<99, 46, 116>>) :> FileEntry(<<104, 10, 105>>))
    @@ (InRoot(<<107>>) :> LinkEntry(WatchedFile))
    @@ (VendorDir :> DirEntry)
    @@ (Join(VendorDir, <<108, 46, 98>>) :> FileEntry(<<1>>))
    @@ (LogNamedFile :> FileEntry(<<104>>))
    @@ (InRoot(<<111>> \o AegisSuffix) :> FileEntry(<<1>>))

\* the files other processes write, create, remove and rename:
\* r/a.t, r/n.t, r/watch_log_, r/o.aegis, r/vendor/l.b
EnvFiles ==
    { WatchedFile, InRoot(<<110, 46, 116>>), LogNamedFile,
      InRoot(<<111>> \o AegisSuffix), Join(VendorDir, <<108, 46, 98>>) }

\* the names other processes rename a file to: r/n.t
RenameTargets == { InRoot(<<110, 46, 116>>) }

\* the directories other processes create: r/d/.git, r/e
EnvDirs == { GitDir, InRoot(<<101>>) }

----------------------------------------------------------------------------
(* the state machine of watch *)

InitWatch ==
    /\ fs = WatchTree
    /\ fs0 = fs
    /\ oracle = {}
    /\ origin = NoOrigin
    /\ phase = "Init"
    /\ pc = "walk"
    /\ op = "none"
    /\ password = <<>>
    /\ stack = <<>>
    /\ cur = NoCur
    /\ filesSealed = 0
    /\ filesUnsealed = 0
    /\ filesFailed = 0
    /\ filesSkipped = 0
    /\ exitCode = 0
    /\ entropy = 0
    /\ event = "init"
    /\ evPath = <<>>
    /\ kdfCalls = 0
    /\ faults = 0
    /\ runs = <<>>
    /\ visited = {}
    /\ created = {}
    /\ NoWatch

\* the directory given to the watch that is running
WatchDir == runs[Len(runs)].dir

\* watch.go:49-137  watchCmd.Run up to the event loop.  fault: "logs" (the
\* log directory or a log file cannot be created), "watcher"
\* (fsnotify.NewWatcher or watcher.Add fails)
WatchStart(dir, fault) ==
    /\ phase = "Init"
    /\ FaultOK(fault)
    /\ faults' = IF fault = "none" THEN faults ELSE faults + 1
    /\ evPath' = dir
    /\ runs' = Append(runs, [op |-> "watch", pw |-> <<>>, dir |-> dir,
                             f0 |-> faults, prev |-> phase, fs |-> fs])
    /\ op' = "watch"
    /\ IF ~StatIsDir(fs, dir) \/ fault = "logs"
       THEN /\ phase' = "Finished"
            /\ event' = "watch refused"
            /\ UNCHANGED <<snapshots, watcher, basicLog, detailedLog>>
       ELSE /\ snapshots' = createInitialSnapshots(fs, dir)
            /\ basicLog' = <<LogEntry("header", dir)>>
            /\ IF fault = "watcher"
               THEN /\ phase' = "Finished"
                    /\ event' = "watcher failed"
                    /\ watcher' = {}
                    /\ detailedLog' = <<LogEntry("header", dir),
                                        LogEntry("snapshots", dir)>>
               ELSE /\ phase' = "Watching"
                    /\ event' = "watching"
                    /\ watcher' = addDirRecursive({}, fs, dir)
                    /\ detailedLog' = <<LogEntry("header", dir),
                                        LogEntry("snapshots", dir),
                                        LogEntry("watching", dir)>>
    /\ UNCHANGED <<fs, events, envOps, pc, password, stack, cur, filesSealed,
                   filesUnsealed, filesFailed, filesSkipped, exitCode, oracle,
                   entropy, kdfCalls, fs0, origin, visited, created>>
    /\ UNCHANGED <<retryVars, handled>>

\* fsnotify: a change of an entry of a directory on the watcher is reported
Emit(q, path, o) ==
    IF Dir(path) \in watcher THEN Append(q, [name |-> path, op |-> o]) ELSE q

EnvStep(kind, path) ==
    /\ phase = "Watching"
    /\ envOps < MaxEnvOps
    /\ envOps' = envOps + 1
    /\ event' = kind
    /\ evPath' = path
    /\ UNCHANGED <<phase, op, faults, runs, watcher, snapshots, basicLog,
                   detailedLog, pc, password, stack, cur, filesSealed,
                   filesUnsealed, filesFailed, filesSkipped, exitCode, oracle,
                   entropy, kdfCalls, fs0, origin, visited, created>>
    /\ UNCHANGED <<retryVars, handled>>

\* another process writes a file that exists
EnvWrite(path, data) ==
    /\ Exists(fs, path) /\ fs[path].kind = "file"
    /\ EnvStep("env write", path)
    /\ fs' = [fs EXCEPT ![path] = FileEntry(data)]
    /\ events' = Emit(events, path, "Write")

\* another process creates a file
EnvCreate(path, data) ==
    /\ ~Exists(fs, path)
    /\ Exists(fs, Dir(path)) /\ fs[Dir(path)].kind = "dir"
    /\ EnvStep("env create", path)
    /\ fs' = (path :> FileEntry(data)) @@ fs
    /\ events' = Emit(events, path, "Create")

\* another process creates a directory
EnvMkdir(path) ==
    /\ ~Exists(fs, path)
    /\ Exists(fs, Dir(path)) /\ fs[Dir(path)].kind = "dir"
    /\ EnvStep("env mkdir", path)
    /\ fs' = (path :> DirEntry) @@ fs
    /\ events' = Emit(events, path, "Create")

\* another process removes a file
EnvRemove(path) ==
    /\ Exists(fs, path) /\ fs[path].kind = "file"
    /\ EnvStep("env remove", path)
    /\ fs' = [p \in (DOMAIN fs) \ {path} |-> fs[p]]
    /\ events' = Emit(events, path, "Remove")

\* another process renames a file: Rename for the old name, Create for the new
EnvRename(path, to) ==
    /\ Exists(fs, path) /\ fs[path].kind = "file"
    /\ ~Exists(fs, to)
    /\ Exists(fs, Dir(to)) /\ fs[Dir(to)].kind = "dir"
    /\ EnvStep("env rename", path)
    /\ fs' = [p \in ((DOMAIN fs) \ {path}) \cup {to} |->
                IF p = to THEN fs[path] ELSE fs[p]]
    /\ events' = Emit(Emit(events, path, "Rename"), to, "Create")

\* the entry of `handled` for an event that reached the switch
Handled(o, r) == [op |-> o, ok |-> r.ok, data |-> r.data]

\* `handled` after an event for `name` reached the switch
Record(h, name, entry) ==
    [p \in (DOMAIN h) \cup {name} |-> IF p = name THEN entry ELSE h[p]]

\* watch.go:141  case event, ok := <-watcher.Events: the loop is in its
\* select, not inside showNewFileContent
Handling(kind) ==
    /\ phase = "Watching"
    /\ reading = <<>>
    /\ events # <<>>
    /\ events' = Tail(events)
    /\ event' = kind
    /\ evPath' = events[1].name
    /\ UNCHANGED <<fs, phase, op, faults, runs, envOps, pc, password, stack,
                   cur, filesSealed, filesUnsealed, filesFailed, filesSkipped,
                   exitCode, oracle, entropy, kdfCalls, fs0, origin, visited,
                   created>>

\* watch.go:147-152  an event for a .aegis file or a log file: continue
HandleFiltered ==
    /\ Handling("ignored")
    /\ Filtered(events[1].name)
    /\ UNCHANGED <<watcher, snapshots, basicLog, detailedLog, retryVars, handled>>

\* watch.go:155-160  an event for a directory: a created one is added to the
\* watcher with all below it
HandleDir ==
    /\ Handling("directory")
    /\ ~Filtered(events[1].name)
    /\ StatIsDir(fs, events[1].name)
    /\ watcher' = IF events[1].op = "Create"
                  THEN addDirRecursive(watcher, fs, events[1].name)
                  ELSE watcher
    /\ UNCHANGED <<snapshots, basicLog, detailedLog, retryVars, handled>>

\* watch.go:168-186  case event.Has(fsnotify.Write)
HandleWrite ==
    /\ Handling("write")
    /\ ~Filtered(events[1].name)
    /\ ~StatIsDir(fs, events[1].name)
    /\ events[1].op = "Write"
    /\ LET name == events[1].name
           summary == detectAndShowChanges(snapshots, fs, name)
       IN  /\ detailedLog' = detailedLog \o <<LogEntry("FILE MODIFIED", name)>>
                                \o summary.detailed
           /\ basicLog' = basicLog \o summary.basic
                            \o (IF summary.hasChanges
                                THEN <<LogEntry("[Modified]", name)>>
                                ELSE <<>>)
           /\ snapshots' = summary.snapshots
           /\ handled' = Record(handled, name,
                                 Handled("Write", ReadFile(fs, name, "none")))
    /\ UNCHANGED <<watcher, retryVars>>

\* watch.go:188-198, 581-584  case event.Has(fsnotify.Create), up to the
\* loop of showNewFileContent
HandleCreate ==
    /\ Handling("create")
    /\ ~Filtered(events[1].name)
    /\ ~StatIsDir(fs, events[1].name)
    /\ events[1].op = "Create"
    /\ detailedLog' = Append(detailedLog, LogEntry("FILE CREATED", events[1].name))
    /\ reading' = events[1].name
    /\ attempt' = 0
    /\ retryDelay' = InitialDelay
    /\ sleeps' = <<>>
    /\ UNCHANGED <<watcher, snapshots, basicLog, lastSummary, handled>>

\* watch.go:586-597, 599-649, 199-204  one turn of the loop of
\* showNewFileContent: os.ReadFile, and either time.Sleep with the delay
\* doubled (other processes run while watch sleeps), or the rest of the
\* function, the [Created] line and tracker.addSnapshot.  fault: "read"
\* (the file is there and cannot be read, as a locked file)
ReadAttempt(fault) ==
    /\ phase = "Watching"
    /\ reading # <<>>
    /\ FaultOK(fault)
    /\ faults' = IF fault = "none" THEN faults ELSE faults + 1
    /\ evPath' = reading
    /\ LET r == ReadFile(fs, reading, fault)
           summary == showNewFileContent(reading, r)
       IN  IF ~r.ok /\ attempt < maxRetries - 1
           THEN /\ event' = "retry"
                /\ sleeps' = Append(sleeps, retryDelay)
                /\ retryDelay' = NextDelay(retryDelay)
                /\ attempt' = attempt + 1
                /\ UNCHANGED <<reading, lastSummary, detailedLog, basicLog,
                               snapshots, handled>>
           ELSE /\ event' = "created"
                /\ attempt' = IF r.ok THEN attempt ELSE attempt + 1
                /\ reading' = <<>>
                /\ lastSummary' = [newSize |-> summary.newSize,
                                   hasChanges |-> summary.hasChanges]
                /\ detailedLog' = detailedLog \o summary.detailed
                /\ basicLog' = basicLog \o summary.basic
                                 \o <<LogEntry("[Created]", reading)>>
                /\ snapshots' = addSnapshot(snapshots, fs, reading)
                /\ handled' = Record(handled, reading,
                                      Handled("Create", ReadFile(fs, reading, "none")))
                /\ UNCHANGED <<retryDelay, sleeps>>
    /\ UNCHANGED <<fs, phase, op, runs, watcher, events, envOps, pc, password,
                   stack, cur, filesSealed, filesUnsealed, filesFailed,
                   filesSkipped, exitCode, oracle, entropy, kdfCalls, fs0,
                   origin, visited, created>>

\* watch.go:206-218  case event.Has(fsnotify.Remove)
HandleRemove ==
    /\ Handling("remove")
    /\ ~Filtered(events[1].name)
    /\ ~StatIsDir(fs, events[1].name)
    /\ events[1].op = "Remove"
    /\ detailedLog' = Append(detailedLog, LogEntry("FILE REMOVED", events[1].name))
    /\ basicLog' = Append(basicLog, LogEntry("[Removed]", events[1].name))
    /\ snapshots' = removeSnapshot(snapshots, events[1].name)
    /\ handled' = Record(handled, events[1].name,
                          [op |-> "Remove", ok |-> FALSE, data |-> <<>>])
    /\ UNCHANGED <<watcher, retryVars>>

\* watch.go:220-230  case event.Has(fsnotify.Rename)
HandleRename ==
    /\ Handling("rename")
    /\ ~Filtered(events[1].name)
    /\ ~StatIsDir(fs, events[1].name)
    /\ events[1].op = "Rename"
    /\ detailedLog' = Append(detailedLog, LogEntry("FILE RENAMED", events[1].name))
    /\ basicLog' = Append(basicLog, LogEntry("[Renamed]", events[1].name))
    /\ handled' = Record(handled, events[1].name,
                          [op |-> "Rename", ok |-> FALSE, data |-> <<>>])
    /\ UNCHANGED <<watcher, snapshots, retryVars>>

\* watch.go:233-240  case err, ok := <-watcher.Errors
WatcherError ==
    /\ phase = "Watching"
    /\ reading = <<>>
    /\ UNCHANGED <<retryVars, handled>>
    /\ faults < MaxFaults
    /\ faults' = faults + 1
    /\ event' = "watcher error"
    /\ detailedLog' = Append(detailedLog, LogEntry("watcher error", <<>>))
    /\ basicLog' = Append(basicLog, LogEntry("watcher error", <<>>))
    /\ UNCHANGED <<fs, phase, op, evPath, runs, watcher, snapshots, events,
                   envOps, pc, password, stack, cur, filesSealed, filesUnsealed,
                   filesFailed, filesSkipped, exitCode, oracle, entropy,
                   kdfCalls, fs0, origin, visited, created>>

NextWatch ==
    \/ \E dir \in WatchArgs, fault \in {"none", "logs", "watcher"} :
            WatchStart(dir, fault)
    \/ \E path \in EnvFiles, data \in WatchData : EnvWrite(path, data)
    \/ \E path \in EnvFiles, data \in WatchData : EnvCreate(path, data)
    \/ \E path \in EnvDirs : EnvMkdir(path)
    \/ \E path \in EnvFiles : EnvRemove(path)
    \/ \E path \in EnvFiles, to \in RenameTargets : EnvRename(path, to)
    \/ HandleFiltered
    \/ HandleDir
    \/ HandleWrite
    \/ HandleCreate
    \/ \E fault \in {"none", "read"} : ReadAttempt(fault)
    \/ HandleRemove
    \/ HandleRename
    \/ WatcherError

SpecWatch == InitWatch /\ [][NextWatch]_vars

\* the loop of showNewFileContent runs in the goroutine of watchCmd.Run, which
\* the scheduler does not starve: a turn that can be taken is taken
SpecWatchFair ==
    SpecWatch /\ WF_vars(\E fault \in {"none", "read"} : ReadAttempt(fault))

----------------------------------------------------------------------------
(* what the claims speak of *)

\* the entry the walk visits next is a file (not a link) bearing the suffix
NextIsArtifact ==
    /\ phase = "Walking"
    /\ pc = "walk"
    /\ Exists(fs, NextPath)
    /\ fs[NextPath].kind = "file"
    /\ HasSuffix(NextPath, AegisSuffix)

\* gcm.Seal produced exactly these bytes, as a whole artifact, under password pw
SealedUnder(data, pw) ==
    \E o \in oracle : o.pw = pw /\ Encode(o.salt, o.nonce, o.ct) = data

\* the artifact at the path is the one the current Seal code made of a file
\* it is known of, under password pw
MadeBySeal(path, pw) ==
    /\ path \in DOMAIN origin
    /\ origin[path].pw = pw
    /\ fs[path].data = origin[path].artifact

\* the callback returned nil and filepath.Walk goes on to the next entry
WalkContinues ==
    /\ phase' # "FatalAborted"
    /\ exitCode' = 0
    /\ pc' = "walk"
    /\ stack' = Advance(stack)

\* a tree of directories and regular files only, none excluded, none sealed
PlainOnly(f) ==
    \A p \in DOMAIN f :
        /\ f[p].kind # "symlink"
        /\ f[p].kind = "dir" => Base(p) \notin excludeSet
        /\ f[p].kind = "file" => ~HasSuffix(p, AegisSuffix)

\* Seal of Root, then Unseal of Root with the same password, both run to the
\* end, and no call returned an error
SealThenUnsealDone ==
    /\ Len(runs) = 2
    /\ runs[1].op = "seal" /\ runs[2].op = "unseal"
    /\ runs[1].dir = Root /\ runs[2].dir = Root
    /\ runs[1].pw = runs[2].pw
    /\ phase = "Finished"
    /\ faults = 0

\* the path lies below a directory whose name is in the exclusion set
UnderExcluded(path) ==
    \E i \in 2..Len(path) :
        path[i] = Slash /\ Base(SubSeq(path, 1, i - 1)) \in excludeSet

\* the path lies below an excluded directory that is itself below dir
UnderExcludedBelow(dir, path) ==
    \E i \in (Len(dir) + 2)..Len(path) :
        path[i] = Slash /\ Base(SubSeq(path, 1, i - 1)) \in excludeSet

\* the step leaves every entry below an excluded directory below dir as it was
ExcludedUnchanged(dir) ==
    \A p \in DOMAIN fs \cup DOMAIN fs' :
        UnderExcludedBelow(dir, p)
            => (p \in DOMAIN fs /\ p \in DOMAIN fs' /\ fs'[p] = fs[p])

\* the walk is about to call the callback for an excluded directory
NextIsExcludedDir ==
    /\ phase = "Walking"
    /\ pc = "walk"
    /\ Exists(fs, NextPath)
    /\ fs[NextPath].kind = "dir"
    /\ Base(NextPath) \in excludeSet

\* the walk is about to call the callback for a symbolic link
NextIsLink ==
    /\ phase = "Walking"
    /\ pc = "walk"
    /\ Exists(fs, NextPath)
    /\ fs[NextPath].kind = "symlink"

\* every regular file outside the excluded directories bears the suffix
AllSealed(f) ==
    \A p \in DOMAIN f :
        (f[p].kind = "file" /\ ~UnderExcluded(p)) => HasSuffix(p, AegisSuffix)

\* every plain regular file the first command found outside the excluded
\* directories is there with its content
AllRecovered ==
    \A p \in DOMAIN fs0 :
        (fs0[p].kind = "file" /\ ~UnderExcluded(p) /\ ~HasSuffix(p, AegisSuffix))
            => (p \in DOMAIN fs /\ fs[p] = fs0[p])

\* the command started last has reached Finished and no call of it failed
LastRunClean ==
    /\ runs # <<>>
    /\ phase = "Finished"
    /\ faults = runs[Len(runs)].f0

\* a delete is pending, or filepath.Walk has a name left to call the callback for
CanStep == pc = "remove" \/ stack # <<>>

\* the run has ended one way or the other
Terminal == phase \in {"Finished", "FatalAborted"}

\* the entries of a tree that bear the suffix and are not directories
Artifacts(f) == {p \in DOMAIN f : f[p].kind # "dir" /\ HasSuffix(p, AegisSuffix)}

\* when the command running now started, every entry bearing the suffix was a
\* regular file that the Seal code had made under the password given now
StartedOnSealOutput ==
    /\ runs # <<>>
    /\ \A p \in Artifacts(runs[Len(runs)].fs) :
          /\ runs[Len(runs)].fs[p].kind = "file"
          /\ p \in DOMAIN origin
          /\ origin[p].pw = password
          /\ origin[p].artifact = runs[Len(runs)].fs[p].data

\* the sum of the three counters of Unseal
CounterSum == filesUnsealed + filesFailed + filesSkipped

\* the entries the walk of this run called the callback for that were not
\* directories
NonDirVisited ==
    {p \in visited :
        p \in DOMAIN runs[Len(runs)].fs => runs[Len(runs)].fs[p].kind # "dir"}

\* the walk is about to call the callback for an entry of the given kind
NextIsKind(kind) ==
    /\ phase = "Walking"
    /\ pc = "walk"
    /\ Exists(fs, NextPath)
    /\ fs[NextPath].kind = kind

----------------------------------------------------------------------------
(* the claims *)

\* C1: for every tree of directories and regular files (nothing excluded, no
\* link, no .aegis file, no failing call), Seal followed by Unseal with the
\* same password restores exactly the original paths and contents, also when
\* files of one directory differ only in their extension.
C1_DirRoundTrip == (SealThenUnsealDone /\ PlainOnly(fs0)) => fs = fs0


\* C2: for every content p (also empty, also with 0x00 bytes) and extension e
\* (also empty), Unseal with the same password opens the artifact Seal made of
\* (p, e) to exactly (p, e): it writes content p to the original source path.
C2_FileRoundTrip ==
    [][ ( /\ op = "unseal"
          /\ NextIsArtifact
          /\ MadeBySeal(NextPath, password)
          /\ event' \notin {"lstatFail", "readFail", "kdfFail", "cipherFail",
                            "gcmFail", "writeFail"} )
        => ( /\ event' = "written"
             /\ cur'.src = NextPath
             /\ cur'.out = origin[NextPath].path
             /\ fs'[cur'.out] = FileEntry(origin[NextPath].data) ) ]_vars

\* reached: Unseal has just written back r/d/c.t, whose content <<0, 5>> begins
\* with a 0x00, from the artifact Seal made of it
C2_Witness ==
    /\ op = "unseal"
    /\ event = "written"
    /\ pc = "remove"
    /\ cur.src \in DOMAIN origin
    /\ origin[cur.src].pw = password
    /\ origin[cur.src].data = <<0, 5>>
    /\ cur.out = origin[cur.src].path
    /\ fs[cur.out].data = <<0, 5>>

\* C3: in Seal and in Unseal, on every path through the per-file callback, a
\* failed write of the output is never followed by the deletion of the source.
C3_NoDeleteAfterFailedWrite ==
    [][ (event \in {"writeFail", "legacyWriteFail"} /\ Exists(fs, evPath))
        => Exists(fs', evPath) ]_vars

\* C4: Unseal of an artifact that was not sealed under the given password
\* (another password, or bytes altered after sealing) is a recoverable
\* failure: failed grows by one, the file system is unchanged (the artifact
\* stays, no plaintext is written) and the walk goes on to the next entry.
C4_AuthFailure ==
    [][ ( /\ op = "unseal"
          /\ NextIsArtifact
          /\ ~SealedUnder(fs[NextPath].data, password)
          /\ event' \notin {"lstatFail", "readFail", "kdfFail", "cipherFail", "gcmFail"} )
        => ( /\ event' \in {"authFail", "tooShort"}
             /\ filesFailed' = filesFailed + 1
             /\ filesUnsealed' = filesUnsealed
             /\ fs' = fs
             /\ WalkContinues ) ]_vars

\* reached: Unseal with a password other than the one r/a.aegis was sealed
\* with has failed to open it, and the walk goes on to r/n.t
C4_Witness ==
    /\ op = "unseal"
    /\ event = "authFail"
    /\ evPath \in DOMAIN origin
    /\ origin[evPath].pw # password
    /\ fs[evPath].data = origin[evPath].artifact
    /\ filesFailed = 1
    /\ phase = "Walking"

\* C5: a failed write of the output file is a recoverable error in Seal and
\* in Unseal: the file is counted as failed and the run is not aborted.
C5_WriteFailureRecoverable ==
    [][ event' = "writeFail"
        => ( /\ filesFailed' = filesFailed + 1
             /\ phase' # "FatalAborted"
             /\ exitCode' = 0 ) ]_vars

\* C6: no error of the cipher stage on one file (salt or nonce generation, key
\* derivation, cipher or GCM setup, malformed artifact, authentication) aborts
\* a Seal or Unseal run: failed grows by one and the walk goes on.
C6_CipherErrorsRecoverable ==
    [][ event' \in {"saltFail", "nonceFail", "kdfFail", "cipherFail", "gcmFail",
                    "tooShort", "malformed", "authFail"}
        => ( /\ filesFailed' = filesFailed + 1
             /\ WalkContinues ) ]_vars

\* C7: in Seal and in Unseal, when reading an included file fails, failed
\* grows by exactly one, the file system is unchanged and the walk goes on.
C7_ReadFailureCounted ==
    [][ event' = "readFail"
        => ( /\ filesFailed' = filesFailed + 1
             /\ fs' = fs
             /\ WalkContinues ) ]_vars

\* C8: an artifact that authenticates but whose envelope has no 0x00 is written
\* in full to dir/basename-without-suffix and is counted as succeeded, not as
\* failed.
C8_LegacyCountedSucceeded ==
    [][ /\ (event' = "legacyWritten" /\ fs[NextPath].data = LegacyArtifact)
           => fs'[LegacyOut(NextPath)] = FileEntry(<<7, 8>>)
        /\ (event = "legacyWritten" /\ event' = "legacyRemoved")
           => ( /\ filesUnsealed' = filesUnsealed + 1
                /\ filesFailed' = filesFailed ) ]_vars

\* C9: in Seal and in Unseal, if the write of the output succeeds and the
\* deletion of the source fails, the file is counted as succeeded (not as
\* failed), source and output both stay, and the walk goes on.
C9_RemoveFailureSucceeds ==
    [][ (event \in {"written", "legacyWritten"}
            /\ event' \in {"removeFail", "legacyRemoveFail"})
        => ( /\ filesSealed' + filesUnsealed' = filesSealed + filesUnsealed + 1
             /\ filesFailed' = filesFailed
             /\ Exists(fs', cur.src)
             /\ Exists(fs', cur.out)
             /\ WalkContinues ) ]_vars

\* C10: Unseal rejects an artifact shorter than 16 + 12 = 28 bytes before any
\* key derivation: failed grows by one, scrypt.Key is not called, nothing is
\* written or deleted, and the walk goes on.
C10_ShortArtifactRejected ==
    [][ ( /\ op = "unseal"
          /\ NextIsArtifact
          /\ Len(fs[NextPath].data) < SaltSize + NonceSize
          /\ event' \notin {"lstatFail", "readFail"} )
        => ( /\ event' = "tooShort"
             /\ kdfCalls' = kdfCalls
             /\ filesFailed' = filesFailed + 1
             /\ fs' = fs
             /\ WalkContinues ) ]_vars

\* reached: Unseal has rejected the 27 bytes of r/a.aegis without a key derivation
C10_Witness ==
    /\ op = "unseal"
    /\ event = "tooShort"
    /\ Len(fs[evPath].data) = SaltSize + NonceSize - 1
    /\ kdfCalls = 0
    /\ filesFailed = 1
    /\ phase = "Finished"

\* C11: Seal never reads, writes or deletes an entry below a directory whose
\* name is in the exclusion set, at any depth below the root: the callback is
\* called for no such entry, no such entry changes, and the directory is
\* skipped when it is reached.
C11_SealLeavesExcluded ==
    [][ op' = "seal" =>
          /\ ~UnderExcludedBelow(runs'[Len(runs')].dir, evPath')
          /\ ExcludedUnchanged(runs'[Len(runs')].dir)
          /\ (NextIsExcludedDir /\ event' \notin {"readDirFail", "lstatFail"})
                => (event' = "skipDir" /\ stack' = Advance(stack)) ]_vars

\* C12: Unseal applies the exclusion rule of Seal: an excluded directory is
\* not descended into, and nothing below it is decrypted or deleted.
C12_UnsealLeavesExcluded ==
    [][ op' = "unseal" =>
          /\ (NextIsExcludedDir /\ event' \notin {"readDirFail", "lstatFail"})
                => event' # "enterDir"
          /\ ~UnderExcludedBelow(runs'[Len(runs')].dir, evPath')
          /\ ExcludedUnchanged(runs'[Len(runs')].dir) ]_vars

\* C13: in Seal and in Unseal the callback for a symbolic link, whatever its
\* name, reads nothing, writes nothing and deletes nothing: the link is
\* skipped and the walk goes on.
C13_LinkNeverFollowed ==
    [][ (NextIsLink /\ event' # "lstatFail" /\ phase' # "Crashed")
          => /\ event' \in {"skipSymlink", "skipPlain"}
             /\ fs' = fs
             /\ pc' = "walk" ]_vars

C15_ExcludedCounted ==
    ( /\ fs0 = NotesTree
      /\ Len(runs) = 1
      /\ runs[1].op = "seal" /\ runs[1].dir = Root
      /\ phase = "Finished"
      /\ faults = 0 )
    => (filesSealed = 1 /\ filesSkipped >= 1 /\ filesFailed = 0)

\* C16: a Seal that stopped at any point (fatal error, or kill between two
\* file operations, also between write and delete) can be resumed: in a tree
\* where no two files of a directory share their name without extension, a
\* second Seal with the same password that runs to the end without a failure
\* leaves every regular file outside the excluded directories sealed, and
\* Unseal with that password, run to the end after it, gives every original
\* file its content back.
C16_SealResumable ==
    /\ (Len(runs) = 2 /\ LastRunClean) => AllSealed(fs)
    /\ (Len(runs) = 3 /\ LastRunClean /\ runs[3].prev = "Finished"
          /\ runs[3].f0 = runs[2].f0)
         => AllRecovered

\* the first Seal was killed between the write of r/a.aegis and the delete of
\* r/a.t, the second Seal and Unseal ran to the end
C16_Witness ==
    /\ Len(runs) = 3
    /\ LastRunClean
    /\ fs0 = PlainTree
    /\ runs[2].prev = "Crashed"
    /\ Exists(runs[2].fs, InRoot(<<97, 46, 116>>))
    /\ Exists(runs[2].fs, InRoot(<<97>> \o AegisSuffix))
    /\ runs[3].prev = "Finished"
    /\ runs[3].f0 = runs[2].f0
    /\ fs = fs0

\* C17: an error of the traversal (the root is missing or cannot be read, or
\* the walk reports an error for an entry) is fatal in Seal and in Unseal:
\* the step that meets it ends the run in FatalAborted with exit code 1 and
\* touches no file, and nothing is read, written or deleted after it until
\* another command is started; what was transformed before stays.
C17_TraversalErrorFatal ==
    [][ /\ event' \in {"rootMissing", "readDirFail", "lstatFail"}
           => /\ phase' = "FatalAborted"
              /\ exitCode' = 1
              /\ stack' = <<>>
              /\ fs' = fs
        /\ phase = "FatalAborted"
           => /\ fs' = fs
              /\ Len(runs') = Len(runs) + 1 ]_vars

\* the walk reported an error for an entry after a file had been sealed
C17_Witness ==
    /\ phase = "FatalAborted"
    /\ exitCode = 1
    /\ event = "lstatFail"
    /\ filesSealed = 1
    /\ fs # runs[Len(runs)].fs

\* C18: every run over a finite tree ends: a run goes from Init to Walking
\* and from there to exactly one of Finished and FatalAborted; while it walks
\* there is a step left to take (a pending delete, or a name of the walk),
\* and every callback is for an entry not visited before in the run; no file
\* the run created is visited in the run; after the end nothing on disk
\* changes.
C18_RunTerminates ==
    [][ /\ phase = "Walking"
           => /\ phase' \in {"Walking", "Finished", "FatalAborted"}
              /\ runs' = runs
              /\ pc = "walk" => (evPath' \notin visited /\ visited' = visited \cup {evPath'})
              /\ pc = "remove" => pc' = "walk"
        /\ phase' = "Walking" => CanStep'
        /\ created' \cap visited' = {}
        /\ Terminal => fs' = fs ]_vars

C20_UnsealLeavesPlainFiles ==
    [][ op' = "unseal" =>
          /\ \A p \in DOMAIN fs :
                (fs[p].kind = "file" /\ ~HasSuffix(p, AegisSuffix))
                    => (p \in DOMAIN fs' /\ fs'[p] = fs[p])
          /\ ( /\ phase = "Walking" /\ pc = "walk"
               /\ Exists(fs, NextPath)
               /\ fs[NextPath].kind = "file"
               /\ ~HasSuffix(NextPath, AegisSuffix)
               /\ event' # "lstatFail" )
             => (event' = "skipPlain" /\ filesSkipped' = filesSkipped + 1) ]_vars

\* C21: Seal draws a new salt and a new nonce in the handling of each file,
\* after the file is read and before it is encrypted: a step that encrypts
\* draws two values and uses a salt and a nonce that no earlier encryption of
\* any file, run or password used; a step that does not get past the read
\* draws none.
C21_FreshSaltAndNonce ==
    [][ op = "seal" =>
          /\ event' \in {"written", "writeFail"}
                => /\ entropy' = entropy + 2
                   /\ \E r \in oracle' \ oracle :
                         /\ oracle' = oracle \cup {r}
                         /\ r.pw = password
                         /\ \A o \in oracle : o.salt # r.salt /\ o.nonce # r.nonce
          /\ event' \in {"skipSymlink", "skipSealed", "readFail"}
                => (entropy' = entropy /\ oracle' = oracle) ]_vars

\* r/a.t = "hi" was sealed twice with one password (its delete failed the
\* first time): gcm.Seal has made two records of that envelope
C21_Witness ==
    /\ fs0 = PlainTree
    /\ Len(runs) = 2
    /\ runs[1].op = "seal" /\ runs[2].op = "seal"
    /\ runs[1].pw = runs[2].pw
    /\ event = "written"
    /\ evPath = InRoot(<<97, 46, 116>>)
    /\ \E o1, o2 \in oracle :
          /\ o1 # o2
          /\ o1.pw = password /\ o2.pw = password
          /\ o1.salt # o2.salt /\ o1.nonce # o2.nonce
          /\ \A o \in {o1, o2} :
                AEADOpen(oracle, DeriveKey(o.pw, o.salt), o.nonce, o.ct).envelope
                    = Envelope(<<46, 116>>, <<104, 105>>)

\* C22: the bytes Seal writes are the salt (16 bytes), then the nonce (12
\* bytes), then the ciphertext with its tag, and nothing else (no length
\* prefix); Unseal splits at the same offsets, so that taking apart what was
\* put together gives the same salt, nonce and ciphertext, for every length
\* of the ciphertext, zero included.
C22_LayoutRoundTrip ==
    /\ pc \in {"decode", "done"}
         => LET data == fs[LayoutPath].data
            IN  /\ Len(data) = SaltSize + NonceSize + Len(origin.ciphertext)
                /\ SubSeq(data, 1, SaltSize) = origin.salt
                /\ SubSeq(data, SaltSize + 1, SaltSize + NonceSize) = origin.nonce
                /\ SubSeq(data, SaltSize + NonceSize + 1, Len(data)) = origin.ciphertext
    /\ pc = "done" => cur = origin

\* an artifact with a ciphertext of length zero was put together and taken apart
C22_Witness ==
    /\ pc = "done"
    /\ origin.ciphertext = <<>>
    /\ origin.salt # RandBytes(SaltSize, origin.nonce[1])
    /\ Len(fs[LayoutPath].data) = SaltSize + NonceSize
    /\ cur.ciphertext = <<>>

C25_RootAlwaysTraversed ==
    [][ /\ (op' = "seal" /\ runs' # runs /\ event' \notin {"rootMissing", "readDirFail"})
           => event' = "start"
        /\ (op' = "seal" /\ LastRunClean')
           => \A p \in DOMAIN fs' :
                 (fs'[p].kind = "file" /\ Dir(p) = runs'[Len(runs')].dir)
                     => HasSuffix(p, AegisSuffix) ]_vars

\* C26: for every file Seal or Unseal has written an output for, the output
\* path differs from the source path, so that the delete that follows does not
\* remove the file that was just written: the file written is there before
\* the delete and after it.
C26_DeleteSparesOutput ==
    [][ (pc = "remove" /\ event \in {"written", "legacyWritten"} /\ pc' = "walk")
          => /\ cur.out # cur.src
             /\ Exists(fs, Resolve(fs, cur.out))
             /\ Exists(fs', Resolve(fs, cur.out)) ]_vars

\* C27: the counters of Unseal partition the entries: no step of a run lowers
\* a counter, a step that ends the handling of an entry that is not a
\* directory adds one to exactly one counter and no other step adds
\* anything, and when the run is Finished unsealed + failed + skipped is the
\* number of such entries visited.
C27_UnsealCounterPartition ==
    [][ (op = "unseal" /\ runs' = runs /\ phase' # "Crashed")
          => /\ filesUnsealed' >= filesUnsealed
             /\ filesFailed' >= filesFailed
             /\ filesSkipped' >= filesSkipped
             /\ CounterSum' - CounterSum \in {0, 1}
             /\ (pc' = "walk" /\ phase' # "FatalAborted"
                   /\ event' \notin {"enterDir", "skipDir"})
                  => CounterSum' = CounterSum + 1
             /\ (pc' = "remove" \/ event' \in {"enterDir", "skipDir", "readDirFail", "lstatFail"})
                  => CounterSum' = CounterSum
             /\ phase' = "Finished" => CounterSum' = Cardinality(NonDirVisited') ]_vars

\* an Unseal is Finished with an entry unsealed, one failed and one skipped
C27_Witness ==
    /\ op = "unseal"
    /\ phase = "Finished"
    /\ filesUnsealed >= 1
    /\ filesFailed >= 1
    /\ filesSkipped >= 1
    /\ CounterSum = Cardinality(NonDirVisited)

\* C28: the exclusion set of Seal matches directories only: the callback of
\* Seal for a regular file whose name is in the set seals it, unless a call
\* fails; a directory whose name ends in .aegis is entered as a directory by
\* Seal and by Unseal, and no step changes or removes a directory.
C28_ExclusionMatchesDirsOnly ==
    [][ /\ ( /\ op = "seal" /\ NextIsKind("file")
             /\ Base(NextPath) \in excludeSet
             /\ phase' # "Crashed"
             /\ event' \notin FailEvents )
           => (event' = "written" /\ evPath' = NextPath)
        /\ ( /\ NextIsKind("dir") /\ HasSuffix(NextPath, AegisSuffix)
             /\ phase' # "Crashed"
             /\ event' \notin FailEvents )
           => (event' = "enterDir" /\ evPath' = NextPath /\ fs' = fs)
        /\ \A p \in DOMAIN fs :
             fs[p].kind = "dir" => (p \in DOMAIN fs' /\ fs'[p] = fs[p]) ]_vars

\* Seal went through r/e.aegis as a directory and sealed r/e.aegis/g.t and
\* the file r/target
C28_Witness ==
    /\ fs0 = NamesTree
    /\ Len(runs) = 1
    /\ op = "seal"
    /\ LastRunClean
    /\ filesSealed = 2
    /\ filesSkipped = 0
    /\ fs[InRoot(<<101>> \o AegisSuffix)].kind = "dir"
    /\ Exists(fs, Join(InRoot(<<101>> \o AegisSuffix), <<103>> \o AegisSuffix))
    /\ Exists(fs, InRoot(<<116, 97, 114, 103, 101, 116>> \o AegisSuffix))
    /\ ~Exists(fs, InRoot(<<116, 97, 114, 103, 101, 116>>))

\* the loop takes a Write event for a file that has a snapshot and can be read
TakesWriteOnTracked ==
    /\ phase = "Watching"
    /\ events # <<>>
    /\ events' = Tail(events)
    /\ events[1].op = "Write"
    /\ events[1].name \in DOMAIN snapshots
    /\ ReadFile(fs, events[1].name, "none").ok

\* identical content: nothing more in the basic log, the tracker as it was;
\* other content: one [Modified] line more, the snapshot of `name` holds the
\* content read and no other snapshot changed
ModifiedIffChanged(name) ==
    LET data == ReadFile(fs, name, "none").data
    IN  IF data = snapshots[name].content
        THEN basicLog' = basicLog /\ snapshots' = snapshots
        ELSE /\ basicLog' = Append(basicLog, LogEntry("[Modified]", name))
             /\ DOMAIN snapshots' = DOMAIN snapshots
             /\ snapshots'[name].content = data
             /\ snapshots'[name].hash = Sum256(data)
             /\ \A p \in DOMAIN snapshots : p # name => snapshots'[p] = snapshots[p]

\* C29: while watch runs, no directory below the watched root whose name is
\* in the exclusion list of watch is on the watcher, whether it was there
\* when watch started or was created later.
C29_ExcludedNeverWatched ==
    phase = "Watching" =>
        \A p \in watcher : p # WatchDir => ~shouldExcludeDir(Base(p))

IgnoredName(name) ==
    \/ HasSuffix(name, <<46, 97, 101, 103, 105, 115>>)
    \/ HasPrefix(Base(name), <<119, 97, 116, 99, 104, 95, 108, 111, 103, 95>>)
    \/ HasPrefix(Base(name),
                 <<119, 97, 116, 99, 104, 95, 100, 101, 116, 97, 105, 108, 101, 100, 95>>)
    \/ HasPrefix(Base(name), <<119, 97, 116, 99, 104, 95, 98, 97, 115, 105, 99, 95>>)

\* C32: an event whose path ends in .aegis, or whose base name begins with
\* watch_log_, watch_detailed_ or watch_basic_, writes nothing to either log
\* and changes no snapshot; no path ending in .aegis ever has a snapshot, so
\* the artifacts Seal creates and Unseal removes leave the tracker as it was.
C32_IgnoredLeaveNoTrace ==
    [][ /\ ( /\ phase = "Watching"
             /\ events # <<>>
             /\ events' = Tail(events)
             /\ IgnoredName(events[1].name) )
           => /\ basicLog' = basicLog
              /\ detailedLog' = detailedLog
              /\ snapshots' = snapshots
        /\ \A p \in DOMAIN snapshots' : ~HasSuffix(p, <<46, 97, 101, 103, 105, 115>>)
      ]_vars

\* the Remove event of the artifact r/o.aegis was taken and dropped: the file
\* is gone, the basic log holds its header only, the tracker is as watch
\* started with it
C32_Witness ==
    /\ phase = "Watching"
    /\ event = "ignored"
    /\ evPath = InRoot(<<111>> \o AegisSuffix)
    /\ ~Exists(fs, evPath)
    /\ Len(basicLog) = 1
    /\ snapshots = createInitialSnapshots(WatchTree, Root)

\* the delays of the retries, in milliseconds
RetryDelays == <<100, 200, 400, 800>>

\* C33: inside showNewFileContent the loop variable is at most 4 when a read
\* is made (at most 5 reads) and the sleeps so far are 100, 200, 400, 800 ms
\* in this order; a read that succeeds ends the loop without a sleep and the
\* summary has the size read; a read that fails is followed by the sleep of
\* the next delay and the next attempt, except the fifth, which ends the loop
\* without a sleep and with the summary hasChanges = false, size 0.
\* showNewFileContent, once entered, returns.
C33_BoundedRetry ==
    /\ (reading # <<>>) ~> (reading = <<>>)
    /\ [][ (phase = "Watching" /\ reading # <<>> /\ envOps' = envOps)
          => LET r == ReadFile(fs, reading, "none")
                 readOk == r.ok /\ faults' = faults
             IN  /\ attempt \in 0..4
                 /\ sleeps = SubSeq(RetryDelays, 1, attempt)
                 /\ IF readOk
                    THEN /\ reading' = <<>>
                         /\ attempt' = attempt
                         /\ sleeps' = sleeps
                         /\ lastSummary'.newSize = Len(r.data)
                    ELSE IF attempt < 4
                    THEN /\ reading' = reading
                         /\ attempt' = attempt + 1
                         /\ sleeps' = Append(sleeps, RetryDelays[attempt + 1])
                    ELSE /\ reading' = <<>>
                         /\ sleeps' = sleeps
                         /\ lastSummary' = [newSize |-> 0, hasChanges |-> FALSE]
      ]_vars

\* all five reads of r/n.t failed: four sleeps of 100, 200, 400, 800 ms, and
\* the summary of a file that could not be read
C33_Witness ==
    /\ phase = "Watching"
    /\ event = "created"
    /\ reading = <<>>
    /\ attempt = 5
    /\ sleeps = <<100, 200, 400, 800>>
    /\ lastSummary = [newSize |-> 0, hasChanges |-> FALSE]

====
